---- MODULE Spec2Model ----
(***************************************************************************)
(* SmallTextWidget (crates/small-text/src/text.rs): a one-line text widget *)
(* whose columns are styled by (Target, SymbolStyle) rules and which can   *)
(* play one animation at a time.  The widget's fields are the variables;   *)
(* construction is Init; render and the five lifecycle methods are the     *)
(* actions.  The Animation type lives in a sibling file of the crate that  *)
(* is not part of the sources at hand; its operations (new, next_frame,    *)
(* pause, unpause, advance) follow the design document.                    *)
(***************************************************************************)
EXTENDS Integers, Sequences, FiniteSets, TLC

\* ------------------------------------------------------------------ bounds
MaxLen == 3          \* longest text
MaxRules == 3        \* most rules in a rule set of the resolution runs
MaxDt == 2           \* longest time between two render passes
MaxStrideLen == 5    \* longest text of the stride runs
MaxStride == 3       \* largest stride of the stride runs

\* ------------------------------------------------------------- data types
\* Option::None; Some(v) is v itself, always a record of other fields
None == [none |-> TRUE]

Single(x) == [kind |-> "Single", a |-> x, b |-> 0]
Range(s, e) == [kind |-> "Range", a |-> s, b |-> e]
Every(n) == [kind |-> "Every", a |-> n, b |-> 0]
AllExceptEvery(n) == [kind |-> "AllExceptEvery", a |-> n, b |-> 0]
Untouched == [kind |-> "Untouched", a |-> 0, b |-> 0]

\* SymbolStyle: the two colours render writes (the modifier is never written).
SymbolStyle(bg, fg) == [background_color |-> bg, foreground_color |-> fg]

Rule(t, s) == [target |-> t, style |-> s]

\* HashMap<u16, V> as a function with a finite domain.
EmptyMap == [x \in {} |-> 0]

Insert(m, k, v) == [x \in DOMAIN m \cup {k} |-> IF x = k THEN v ELSE m[x]]

InsertAll(m, ks, v) == [x \in DOMAIN m \cup ks |-> IF x \in ks THEN v ELSE m[x]]

\* m overridden by n
Extend(m, n) == [x \in DOMAIN m \cup DOMAIN n |-> IF x \in DOMAIN n THEN n[x] ELSE m[x]]

Min(a, b) == IF a <= b THEN a ELSE b

\* --------------------------------------------------------------- the sort
\* the closure `priority` of targets_sorter
priority(t) ==
    CASE t.kind = "Single" -> 4
      [] t.kind = "Range" -> 3
      [] t.kind = "Every" -> 2
      [] t.kind = "AllExceptEvery" -> 1
      [] t.kind = "Untouched" -> 0

\* the comparison turned round: priority(&b).cmp(&priority(&a))
targets_sorter_descending(a, b) ==
    IF priority(b) < priority(a) THEN "Less"
    ELSE IF priority(b) > priority(a) THEN "Greater"
    ELSE "Equal"

\* Ordering of a against b: priority(&a).cmp(&priority(&b))
targets_sorter(a, b) ==
    IF priority(a) < priority(b) THEN "Less"
    ELSE IF priority(a) > priority(b) THEN "Greater"
    ELSE "Equal"

\* Vec::sort_by is a stable sort: r goes after every element not Greater than it.
RECURSIVE InsertSorted(_, _)
InsertSorted(s, r) ==
    IF s = <<>> THEN <<r>>
    ELSE IF targets_sorter(s[Len(s)].target, r.target) = "Greater"
         THEN Append(InsertSorted(SubSeq(s, 1, Len(s) - 1), r), s[Len(s)])
         ELSE Append(s, r)

RECURSIVE SortBy(_)
SortBy(s) ==
    IF s = <<>> THEN <<>>
    ELSE InsertSorted(SortBy(SubSeq(s, 1, Len(s) - 1)), s[Len(s)])

\* ------------------------------------------------- the columns of a target
\* x_coords = (0..text_char_count)
x_coords(len) == 0 .. (len - 1)

\* start..end
RangeCols(t) == {x \in t.a .. (t.b - 1) : TRUE}

\* the Vec x_coords: x_coords_vec(len)[i] is the i-th element, counted from 1
x_coords_vec(len) == [i \in 1 .. len |-> i - 1]

\* a step_by that counts its stride from one: the elements n, 2n, ... of the Vec
EveryCols_one_based(t, len) ==
    {x_coords_vec(len)[i] : i \in {i \in 1 .. len : \E k \in 1 .. len : i = k * t.a}}

\* x_coords.iter().step_by(n), n > 0: the first element of the Vec and then
\* every n-th after it
EveryCols(t, len) ==
    {x_coords_vec(len)[i] : i \in {i \in 1 .. len : \E k \in 0 .. len : i = 1 + k * t.a}}

\* the x of x_coords that `x % n == 0 { continue }` lets through, n > 0
AllExceptEveryCols(t, len) == {x \in x_coords(len) : x % t.a # 0}

\* step_by(0) fails its assertion whatever it iterates over; x % 0 fails on
\* the first x there is.
TargetPanics(t, len) ==
    \/ t.kind = "Every" /\ t.a = 0
    \/ t.kind = "AllExceptEvery" /\ t.a = 0 /\ len > 0

\* ------------------------------------------------ calculate_symbol_styles
\* an iteration that keeps the style a column already has
\* (entry(x).or_insert(style) for insert(x, style))
calculate_rule_keeping(acc, rule, len) ==
    LET t == rule.target
        fresh(cols) == {x \in cols : x \notin DOMAIN acc.styles}
        claim(cols) == [acc EXCEPT !.unstyled = @ \ cols,
                                   !.styles = InsertAll(@, fresh(cols), rule.style)]
    IN  IF acc.panic THEN acc
        ELSE IF TargetPanics(t, len) THEN [acc EXCEPT !.panic = TRUE]
        ELSE CASE t.kind = "Single" -> claim({t.a})
               [] t.kind = "Range" -> claim(RangeCols(t))
               [] t.kind = "Every" -> claim(EveryCols(t, len))
               [] t.kind = "AllExceptEvery" -> claim(AllExceptEveryCols(t, len))
               [] t.kind = "Untouched" ->
                    [acc EXCEPT !.styles = InsertAll(@, fresh(acc.unstyled), rule.style)]

\* One iteration of the loop over self.symbol_styles: acc is
\* [panic, unstyled (unstyled_symbol_x_coords), styles (symbol_styles)].
calculate_rule(acc, rule, len) ==
    LET t == rule.target
        claim(cols) == [acc EXCEPT !.unstyled = @ \ cols,
                                   !.styles = InsertAll(@, cols, rule.style)]
    IN  IF acc.panic THEN acc
        ELSE IF TargetPanics(t, len) THEN [acc EXCEPT !.panic = TRUE]
        ELSE CASE t.kind = "Single" -> claim({t.a})
               [] t.kind = "Range" -> claim(RangeCols(t))
               [] t.kind = "Every" -> claim(EveryCols(t, len))
               [] t.kind = "AllExceptEvery" -> claim(AllExceptEveryCols(t, len))
               [] t.kind = "Untouched" ->
                    [acc EXCEPT !.styles = InsertAll(@, acc.unstyled, rule.style)]

RECURSIVE calculate_loop(_, _, _)
calculate_loop(acc, rules, len) ==
    IF rules = <<>> THEN acc
    ELSE calculate_loop(calculate_rule(acc, Head(rules), len), Tail(rules), len)

calculate_symbol_styles(rules, len) ==
    calculate_loop([panic |-> FALSE, unstyled |-> x_coords(len), styles |-> EmptyMap],
                   rules, len)

\* ------------------------------------------------------------ apply_styles
\* What one `buf[(symbol.real_x, y)].set_char(..).set_bg(..).set_fg(..)` leaves
\* in a cell.
Cell(symbol, style) ==
    [ch |-> symbol.value, bg |-> style.background_color, fg |-> style.foreground_color]

\* The writes of one loop over cols: only the columns virtual_canvas holds.
WriteCols(writes, canvas, cols, y, style) ==
    LET seen == cols \cap DOMAIN canvas
        cells == {<<canvas[x].real_x, y>> : x \in seen}
        col(c) == CHOOSE x \in seen : canvas[x].real_x = c[1]
    IN  [c \in DOMAIN writes \cup cells |->
            IF c \in cells THEN Cell(canvas[col(c)], style) ELSE writes[c]]

\* an apply_styles iteration whose AllExceptEvery counts physical positions
apply_rule_by_real_x(acc, rule, len, canvas, y) ==
    LET t == rule.target
        draw(cols) == [acc EXCEPT !.unstyled = @ \ (cols \cap DOMAIN canvas),
                                  !.writes = WriteCols(@, canvas, cols, y, rule.style)]
    IN  IF acc.panic THEN acc
        ELSE IF TargetPanics(t, len) THEN [acc EXCEPT !.panic = TRUE]
        ELSE CASE t.kind = "Single" -> draw({t.a})
               [] t.kind = "Range" -> draw(RangeCols(t))
               [] t.kind = "Every" -> draw(EveryCols(t, len))
               [] t.kind = "AllExceptEvery" ->
                    draw({x \in DOMAIN canvas : canvas[x].real_x % t.a # 0})
               [] t.kind = "Untouched" ->
                    [acc EXCEPT !.writes = WriteCols(@, canvas, acc.unstyled, y, rule.style)]

\* One iteration of the loop over self.symbol_styles: acc is
\* [panic, unstyled (unstyled_symbol_x_coords), writes (the cells of buf set)].
apply_rule(acc, rule, len, canvas, y) ==
    LET t == rule.target
        draw(cols) == [acc EXCEPT !.unstyled = @ \ (cols \cap DOMAIN canvas),
                                  !.writes = WriteCols(@, canvas, cols, y, rule.style)]
    IN  IF acc.panic THEN acc
        ELSE IF TargetPanics(t, len) THEN [acc EXCEPT !.panic = TRUE]
        ELSE CASE t.kind = "Single" -> draw({t.a})
               [] t.kind = "Range" -> draw(RangeCols(t))
               [] t.kind = "Every" -> draw(EveryCols(t, len))
               [] t.kind = "AllExceptEvery" -> draw(AllExceptEveryCols(t, len))
               [] t.kind = "Untouched" ->
                    [acc EXCEPT !.writes = WriteCols(@, canvas, acc.unstyled, y, rule.style)]

RECURSIVE apply_loop(_, _, _, _, _)
apply_loop(acc, rules, len, canvas, y) ==
    IF rules = <<>> THEN acc
    ELSE apply_loop(apply_rule(acc, Head(rules), len, canvas, y), Tail(rules), len, canvas, y)

apply_styles(rules, len, canvas, y) ==
    apply_loop([panic |-> FALSE, unstyled |-> DOMAIN canvas, writes |-> EmptyMap],
               rules, len, canvas, y)

\* virtual_canvas of render: logical column -> Symbol, for the visible width.
VirtualCanvas(text, len, area) ==
    [x \in 0 .. (Min(area.width, len) - 1) |->
        [real_x |-> area.x + x, value |-> text[x + 1]]]

\* --------------------------------------------------------------- Animation
\* AnimationStyle: repeat mode, advance mode and the steps; a step is its
\* duration and the styles it sets on the columns it targets.
AnimationStep(d, styles) == [duration |-> d, styles |-> styles]

AnimationStyle(repeat, advance, steps) ==
    [repeat_mode |-> repeat, advance_mode |-> advance, steps |-> steps]

\* Animation::new: running, step index 0, elapsed 0, the baseline it was given
Animation_new(style, symbol_styles) ==
    [style |-> style, symbol_styles |-> symbol_styles, current_step |-> 0,
     elapsed |-> 0, paused |-> FALSE, ended |-> FALSE]

\* the frame of the current step: its styles on top of the running baseline
Frame(a) == Extend(a.symbol_styles, a.style.steps[a.current_step + 1].styles)

\* to the next step, wrapping (Infinite) or completing (Once) after the last
StepForward(a) ==
    LET b == [a EXCEPT !.symbol_styles = Frame(a)]
    IN  IF a.current_step + 1 < Len(a.style.steps)
        THEN [b EXCEPT !.current_step = @ + 1]
        ELSE IF a.style.repeat_mode = "Infinite"
             THEN [b EXCEPT !.current_step = 0]
             ELSE [a EXCEPT !.ended = TRUE]

\* Auto: walk past every step whose duration the elapsed time has used up
RECURSIVE Walk(_)
Walk(a) ==
    LET d == a.style.steps[a.current_step + 1].duration
    IN  IF a.ended \/ a.elapsed < d THEN a
        ELSE Walk(StepForward([a EXCEPT !.elapsed = @ - d]))

Animation_pause(a) == [a EXCEPT !.paused = TRUE]

Animation_unpause(a) == [a EXCEPT !.paused = FALSE]

Animation_advance(a) ==
    IF a.style.advance_mode = "Manual" /\ ~a.ended
    THEN StepForward([a EXCEPT !.elapsed = 0])
    ELSE a

\* a next_frame whose clock runs on while the animation is paused
Animation_next_frame_ignoring_pause(a, dt) ==
    LET b == IF a.ended \/ a.style.advance_mode = "Manual" THEN a
             ELSE Walk([a EXCEPT !.elapsed = @ + dt])
        some == ~b.ended
    IN  [animation |-> b, some |-> some, frame |-> IF some THEN Frame(b) ELSE EmptyMap]

\* next_frame, dt after the previous call: [animation, some, frame]; some is
\* FALSE (the Option is None) when the animation has ended.  A paused
\* animation returns its frame whatever else holds of it.
Animation_next_frame(a, dt) ==
    LET b == IF a.ended \/ a.paused \/ a.style.advance_mode = "Manual" THEN a
             ELSE Walk([a EXCEPT !.elapsed = @ + dt])
        some == b.paused \/ ~b.ended
    IN  [animation |-> b, some |-> some, frame |-> IF some THEN Frame(b) ELSE EmptyMap]

\* ------------------------------------------------ the widget's operations
\* a construction that keeps the rules in the order they arrive in
new_symbol_styles_unsorted(style_symbol_styles) == style_symbol_styles

\* SmallTextWidget::new: the rules sorted, no active animation
new_symbol_styles(style_symbol_styles) == SortBy(style_symbol_styles)

\* an enable_animation that drops the active animation when the key is unknown
enable_animation_dropping(active, animation_styles, symbol_styles, len, key) ==
    IF key \in DOMAIN animation_styles
    THEN LET r == calculate_symbol_styles(symbol_styles, len)
         IN  IF r.panic THEN [panic |-> TRUE, active_animation |-> active]
             ELSE [panic |-> FALSE,
                   active_animation |-> Animation_new(animation_styles[key], r.styles)]
    ELSE [panic |-> FALSE, active_animation |-> None]

\* an enable_animation that starts an animation only when none is active
enable_animation_when_idle(active, animation_styles, symbol_styles, len, key) ==
    IF key \in DOMAIN animation_styles /\ active = None
    THEN LET r == calculate_symbol_styles(symbol_styles, len)
         IN  IF r.panic THEN [panic |-> TRUE, active_animation |-> active]
             ELSE [panic |-> FALSE,
                   active_animation |-> Animation_new(animation_styles[key], r.styles)]
    ELSE [panic |-> FALSE, active_animation |-> active]

\* enable_animation: [panic, active_animation]
enable_animation(active, animation_styles, symbol_styles, len, key) ==
    IF key \in DOMAIN animation_styles
    THEN LET r == calculate_symbol_styles(symbol_styles, len)
         IN  IF r.panic THEN [panic |-> TRUE, active_animation |-> active]
             ELSE [panic |-> FALSE,
                   active_animation |-> Animation_new(animation_styles[key], r.styles)]
    ELSE [panic |-> FALSE, active_animation |-> active]

\* a disable_animation that leaves the animation in place
disable_animation_keeping(active) == active

disable_animation(active) == None

pause_animation(active) == IF active # None THEN Animation_pause(active) ELSE active

\* an unpause_animation that calls the other method
unpause_animation_pausing(active) ==
    IF active # None THEN Animation_pause(active) ELSE active

unpause_animation(active) == IF active # None THEN Animation_unpause(active) ELSE active

\* an advance_animation that calls the wrong method
advance_animation_pausing(active) ==
    IF active # None THEN Animation_pause(active) ELSE active

advance_animation(active) == IF active # None THEN Animation_advance(active) ELSE active

\* an apply_animation that reports an animation without a frame as running
apply_animation_never_ending(active, canvas, y, dt) ==
    IF active = None
    THEN [ended |-> TRUE, active_animation |-> active, writes |-> EmptyMap]
    ELSE LET nf == Animation_next_frame(active, dt)
         IN  IF ~nf.some
             THEN [ended |-> FALSE, active_animation |-> nf.animation, writes |-> EmptyMap]
             ELSE [ended |-> FALSE, active_animation |-> nf.animation,
                   writes |-> [c \in {<<canvas[x].real_x, y>> :
                                        x \in DOMAIN nf.frame \cap DOMAIN canvas} |->
                                 Cell(canvas[c[1] - canvas[0].real_x],
                                      nf.frame[c[1] - canvas[0].real_x])]]

\* apply_animation: [ended (the bool returned), active_animation, writes]
apply_animation(active, canvas, y, dt) ==
    IF active = None
    THEN [ended |-> TRUE, active_animation |-> active, writes |-> EmptyMap]
    ELSE LET nf == Animation_next_frame(active, dt)
         IN  IF ~nf.some
             THEN [ended |-> TRUE, active_animation |-> nf.animation, writes |-> EmptyMap]
             ELSE [ended |-> FALSE, active_animation |-> nf.animation,
                   writes |-> [c \in {<<canvas[x].real_x, y>> :
                                        x \in DOMAIN nf.frame \cap DOMAIN canvas} |->
                                 Cell(canvas[c[1] - canvas[0].real_x], 
                                      nf.frame[c[1] - canvas[0].real_x])]]

\* a render that ends the animation without drawing the static styles
render_blank_at_end(active, symbol_styles, text, len, area, dt) ==
    LET canvas == VirtualCanvas(text, len, area)
        static == apply_styles(symbol_styles, len, canvas, area.y)
    IN  IF active # None
        THEN LET r == apply_animation(active, canvas, area.y, dt)
             IN  IF r.ended
                 THEN [panic |-> FALSE, active_animation |-> disable_animation(r.active_animation),
                       writes |-> r.writes, path |-> "fallback",
                       symbol_styles |-> symbol_styles]
                 ELSE [panic |-> FALSE, active_animation |-> r.active_animation,
                       writes |-> r.writes, path |-> "animation",
                       symbol_styles |-> symbol_styles]
        ELSE [panic |-> static.panic, active_animation |-> active,
              writes |-> static.writes, path |-> "static",
                       symbol_styles |-> symbol_styles]

\* a render without the else: the static styles are drawn after every frame
render_static_after_frame(active, symbol_styles, text, len, area, dt) ==
    LET canvas == VirtualCanvas(text, len, area)
        static == apply_styles(symbol_styles, len, canvas, area.y)
    IN  IF active # None
        THEN LET r == apply_animation(active, canvas, area.y, dt)
             IN  IF r.ended
                 THEN [panic |-> static.panic, active_animation |-> disable_animation(r.active_animation),
                       writes |-> Extend(r.writes, static.writes), path |-> "fallback",
                       symbol_styles |-> symbol_styles]
                 ELSE [panic |-> static.panic, active_animation |-> r.active_animation,
                       writes |-> Extend(r.writes, static.writes), path |-> "animation",
                       symbol_styles |-> symbol_styles]
        ELSE [panic |-> static.panic, active_animation |-> active,
              writes |-> static.writes, path |-> "static",
                       symbol_styles |-> symbol_styles]

\* render: [panic, active_animation, writes, path, symbol_styles]; path names
\* the branch taken: "animation" (a frame was drawn), "fallback" (the
\* animation ended in this pass), "static" (no animation was active);
\* symbol_styles is the rule list apply_styles(&mut self) leaves, the one it
\* iterated.
\* a render whose static pass uses the rule list up
render_draining(active, symbol_styles, text, len, area, dt) ==
    LET canvas == VirtualCanvas(text, len, area)
        static == apply_styles(symbol_styles, len, canvas, area.y)
    IN  IF active # None
        THEN LET r == apply_animation(active, canvas, area.y, dt)
             IN  IF r.ended
                 THEN [panic |-> static.panic, active_animation |-> disable_animation(r.active_animation),
                       writes |-> Extend(r.writes, static.writes), path |-> "fallback",
                       symbol_styles |-> <<>>]
                 ELSE [panic |-> FALSE, active_animation |-> r.active_animation,
                       writes |-> r.writes, path |-> "animation",
                       symbol_styles |-> symbol_styles]
        ELSE [panic |-> static.panic, active_animation |-> active,
              writes |-> static.writes, path |-> "static",
              symbol_styles |-> <<>>]

render(active, symbol_styles, text, len, area, dt) ==
    LET canvas == VirtualCanvas(text, len, area)
        static == apply_styles(symbol_styles, len, canvas, area.y)
    IN  IF active # None
        THEN LET r == apply_animation(active, canvas, area.y, dt)
             IN  IF r.ended
                 THEN [panic |-> static.panic, active_animation |-> disable_animation(r.active_animation),
                       writes |-> Extend(r.writes, static.writes), path |-> "fallback",
                       symbol_styles |-> symbol_styles]
                 ELSE [panic |-> FALSE, active_animation |-> r.active_animation,
                       writes |-> r.writes, path |-> "animation",
                       symbol_styles |-> symbol_styles]
        ELSE [panic |-> static.panic, active_animation |-> active,
              writes |-> static.writes, path |-> "static",
                       symbol_styles |-> symbol_styles]

\* ------------------------------------------------------------------ inputs
White == "White"
Black == "Black"

Alphabet == <<"A", "B", "C", "D", "E", "F">>

\* the texts: "", "A", "AB", ...
Texts == {SubSeq(Alphabet, 1, n) : n \in 0 .. MaxLen}

\* The rules of the resolution runs: every class, overlapping targets,
\* columns past the shorter texts, an inverted range and the two zero strides.  Each
\* rule has a style of its own, so a resolved style names its rule.
RulePool ==
    { Rule(Single(0), SymbolStyle(White, Black)),
      Rule(Range(0, 2), SymbolStyle("Green", Black)),
      Rule(Range(1, 3), SymbolStyle("Blue", Black)),
      Rule(Range(2, 1), SymbolStyle("Cyan", Black)),
      Rule(Every(2), SymbolStyle("Yellow", Black)),
      Rule(Every(0), SymbolStyle("Gray", Black)),
      Rule(AllExceptEvery(2), SymbolStyle("Magenta", Black)),
      Rule(AllExceptEvery(0), SymbolStyle("Red", White)),
      Rule(Untouched, SymbolStyle(Black, White)) }

\* style.symbol_styles is a HashMap: one rule per target, iterated in any order
OrderedRuleSets(pool, n) ==
    {s \in UNION {[1 .. k -> pool] : k \in 0 .. n} :
        \A i, j \in DOMAIN s : i # j => s[i].target # s[j].target}

\* The rule sets of the lifecycle runs.
LifecycleRules ==
    { <<>>,
      <<Rule(Single(0), SymbolStyle(White, Black)), Rule(Untouched, SymbolStyle(Black, White))>>,
      <<Rule(Every(2), SymbolStyle("Yellow", Black)), Rule(Range(1, MaxLen + 1), SymbolStyle("Blue", Black))>>,
      <<Rule(AllExceptEvery(0), SymbolStyle("Red", White))>>,
      <<Rule(Every(0), SymbolStyle("Gray", Black)), Rule(Untouched, SymbolStyle(Black, White))>> }

\* The animation definitions of the widget, by key; key 0 is not defined.
AnimationStyles ==
    LET s1 == AnimationStep(1, Insert(EmptyMap, 0, SymbolStyle("Red", "Green")))
        s2 == AnimationStep(1, Insert(Insert(EmptyMap, 1, SymbolStyle("Green", "Red")),
                                      MaxLen + 1, SymbolStyle("Blue", "Red")))
    IN  [k \in 1 .. 4 |->
            CASE k = 1 -> AnimationStyle("Once", "Auto", <<s1, s2>>)
              [] k = 2 -> AnimationStyle("Infinite", "Manual", <<s1, s2>>)
              [] k = 3 -> AnimationStyle("Infinite", "Auto", <<s2, s1>>)
              [] k = 4 -> AnimationStyle("Once", "Manual", <<s1>>)]

Keys == 0 .. 4

Rect(x, y, w, h) == [x |-> x, y |-> y, width |-> w, height |-> h]

\* The areas render is given: wider and narrower than the text, at and off
\* the origin, of one row and of no row.
Areas == { Rect(0, 0, MaxLen + 1, 1), Rect(1, 1, 2, 2), Rect(0, 1, 2, 0) }

\* The areas of the resolution runs: the whole text, and a prefix of it.
ResolveAreas == { Rect(0, 0, MaxLen + 1, 1), Rect(1, 1, 2, 2) }

\* ------------------------------------------------------------------- state
VARIABLES
    text,                 \* self.text, as the sequence of its chars
    text_char_count,      \* self.text_char_count
    symbol_styles,        \* self.symbol_styles
    active_animation,     \* self.active_animation
    animation_styles,     \* self.animation_styles
    style_symbol_styles,  \* the rules given to new, in the order they were iterated
    writes,               \* the cells of buf the last render pass set
    path,                 \* the branch the last render pass took
    area,                 \* the area of the last render pass
    panicked,             \* the thread has panicked
    last_op,              \* the last operation called, with its key or its time
    pre,                  \* the animation's state before the last operation
    round_trip            \* how far the last operations spell enable, disable, render

widget == <<text, text_char_count, symbol_styles, active_animation, animation_styles>>

vars == <<text, text_char_count, symbol_styles, active_animation, animation_styles,
          style_symbol_styles, writes, path, area, panicked, last_op, pre, round_trip>>

Op(name, key) == [op |-> name, key |-> key]

\* SmallTextWidget::new(style)
New(rule_lists) ==
    /\ text \in Texts
    /\ text_char_count = Len(text)
    /\ style_symbol_styles \in rule_lists
    /\ symbol_styles = new_symbol_styles(style_symbol_styles)
    /\ active_animation = None
    /\ animation_styles = AnimationStyles
    /\ writes = EmptyMap
    /\ path = "none"
    /\ area = None
    /\ panicked = FALSE
    /\ last_op = Op("new", None)
    /\ pre = "Idle"
    /\ round_trip = 0

Init == New(LifecycleRules)

InitResolve == New(OrderedRuleSets(RulePool, MaxRules))

\* the states of the design: no animation, one running, one paused
AnimationState(active) ==
    IF active = None THEN "Idle" ELSE IF active.paused THEN "Paused" ELSE "Running"

Called(name, key) ==
    /\ ~panicked
    /\ last_op' = Op(name, key)
    /\ pre' = AnimationState(active_animation)
    /\ UNCHANGED <<text, text_char_count, animation_styles, style_symbol_styles>>

Render(a, dt) ==
    LET r == render(active_animation, symbol_styles, text, text_char_count, a, dt)
    IN  /\ Called("render", dt)
        /\ symbol_styles' = r.symbol_styles
        /\ active_animation' = r.active_animation
        /\ writes' = r.writes
        /\ path' = r.path
        /\ area' = a
        /\ panicked' = r.panic
        /\ round_trip' = IF round_trip = 2 THEN 3 ELSE 0

EnableAnimation(key) ==
    LET r == enable_animation(active_animation, animation_styles, symbol_styles,
                              text_char_count, key)
    IN  /\ Called("enable_animation", key)
        /\ active_animation' = r.active_animation
        /\ panicked' = r.panic
        /\ round_trip' = IF key \in DOMAIN animation_styles /\ ~r.panic THEN 1 ELSE 0
        /\ UNCHANGED <<symbol_styles, writes, path, area>>

Lifecycle(name, result, rt) ==
    /\ Called(name, None)
    /\ active_animation' = result
    /\ round_trip' = rt
    /\ UNCHANGED <<symbol_styles, writes, path, area, panicked>>

DisableAnimation ==
    Lifecycle("disable_animation", disable_animation(active_animation),
              IF round_trip = 1 THEN 2 ELSE 0)

PauseAnimation == Lifecycle("pause_animation", pause_animation(active_animation), 0)

UnpauseAnimation == Lifecycle("unpause_animation", unpause_animation(active_animation), 0)

AdvanceAnimation == Lifecycle("advance_animation", advance_animation(active_animation), 0)

Next ==
    \/ \E a \in Areas, dt \in 0 .. MaxDt : Render(a, dt)
    \/ \E key \in Keys : EnableAnimation(key)
    \/ DisableAnimation
    \/ PauseAnimation
    \/ UnpauseAnimation
    \/ AdvanceAnimation

Spec == Init /\ [][Next]_vars

\* The resolution runs: every rule set of the pool in every order, resolved
\* by enable_animation (the baseline) and by render.
NextResolve ==
    \/ \E a \in ResolveAreas : Render(a, 0)
    \/ EnableAnimation(2)

SpecResolve == InitResolve /\ [][NextResolve]_vars

\* The stride runs: one Every(n) or AllExceptEvery(n) rule, n >= 1, over
\* texts up to MaxStrideLen, resolved by enable_animation and by render.
StrideTexts == {SubSeq(Alphabet, 1, n) : n \in 0 .. MaxStrideLen}

StrideRules ==
    {<<Rule(t, SymbolStyle("Yellow", "Black"))>> :
        t \in {Every(n) : n \in 1 .. MaxStride} \cup {AllExceptEvery(n) : n \in 1 .. MaxStride}}

StrideAreas == {Rect(0, 0, MaxStrideLen, 1), Rect(1, 1, 2, 2)}

InitStride ==
    /\ text \in StrideTexts
    /\ text_char_count = Len(text)
    /\ style_symbol_styles \in StrideRules
    /\ symbol_styles = new_symbol_styles(style_symbol_styles)
    /\ active_animation = None
    /\ animation_styles = AnimationStyles
    /\ writes = EmptyMap
    /\ path = "none"
    /\ area = None
    /\ panicked = FALSE
    /\ last_op = Op("new", None)
    /\ pre = "Idle"
    /\ round_trip = 0

NextStride ==
    \/ \E a \in StrideAreas : Render(a, 0)
    \/ EnableAnimation(2)

SpecStride == InitStride /\ [][NextStride]_vars

\* ================================================================== claims
\* The classes of the design, most specific first.
ClassRank(t) ==
    CASE t.kind = "Single" -> 5
      [] t.kind = "Range" -> 4
      [] t.kind = "Every" -> 3
      [] t.kind = "AllExceptEvery" -> 2
      [] t.kind = "Untouched" -> 1

\* Column c of the text is one the target names (Untouched names every column).
Selects(t, c) ==
    CASE t.kind = "Single" -> c = t.a
      [] t.kind = "Range" -> t.a <= c /\ c < t.b
      [] t.kind = "Every" -> t.a > 0 /\ c % t.a = 0
      [] t.kind = "AllExceptEvery" -> t.a > 0 /\ c % t.a # 0
      [] t.kind = "Untouched" -> TRUE

RuleSet == {symbol_styles[i] : i \in DOMAIN symbol_styles}

Claiming == {r \in RuleSet : r.target.kind # "Untouched"}

Columns == 0 .. (text_char_count - 1)

\* the columns of the last render pass
Visible == 0 .. (Min(area.width, text_char_count) - 1)

\* The rules of the highest class among those that select c.
Winners(c) ==
    {r \in RuleSet :
        /\ Selects(r.target, c)
        /\ \A q \in RuleSet : Selects(q.target, c) => ClassRank(q.target) <= ClassRank(r.target)}

ResolvedBySpecificity(m, c) ==
    IF Winners(c) = {} THEN c \notin DOMAIN m
    ELSE c \in DOMAIN m /\ m[c] \in {r.style : r \in Winners(c)}

\* The colours the last render pass left on the text's columns.
Drawn ==
    [c \in {c \in Columns : <<area.x + c, area.y>> \in DOMAIN writes} |->
        SymbolStyle(writes[<<area.x + c, area.y>>].bg, writes[<<area.x + c, area.y>>].fg)]

\* enable_animation has just computed the baseline of a new animation
BaselineFresh ==
    last_op.op = "enable_animation" /\ ~panicked /\ active_animation # None
    /\ last_op.key \in DOMAIN animation_styles

\* the last operation was a render that took the static path to its end
StaticPass == last_op.op = "render" /\ path = "static" /\ ~panicked

\* what a render of the same area draws when no animation was ever enabled
StaticWrites == render(None, symbol_styles, text, text_char_count, area, 0).writes

\* C1: in the baseline calculate_symbol_styles computes and in what the static
\* path of render draws, every column has the style of a rule of the highest
\* class (Single > Range > Every > AllExceptEvery > Untouched) that selects
\* it, and no style when no rule selects it.
C1_SpecificityWins ==
    /\ BaselineFresh =>
         \A c \in Columns : ResolvedBySpecificity(active_animation.symbol_styles, c)
    /\ StaticPass => \A c \in Visible : ResolvedBySpecificity(Drawn, c)

\* C1 witness: a column two rules of different claiming classes select has been
\* resolved both ways.
C1_Witness ==
    /\ BaselineFresh /\ path = "static" /\ writes # EmptyMap
    /\ \E c \in Visible : \E r, q \in Claiming :
         /\ Selects(r.target, c) /\ Selects(q.target, c)
         /\ ClassRank(r.target) > ClassRank(q.target)

UntouchedRules == {r \in RuleSet : r.target.kind = "Untouched"}

Unclaimed(cols) == {c \in cols : \A r \in Claiming : ~Selects(r.target, c)}

\* C2: with an Untouched rule in the rule set, the columns that end with its
\* style are exactly the columns no Single, Range, Every or AllExceptEvery
\* rule selects, in the baseline and in what the static path draws.
C2_UntouchedIsTheRest ==
    \A u \in UntouchedRules :
        /\ BaselineFresh =>
             LET m == active_animation.symbol_styles
             IN  {c \in DOMAIN m : m[c] = u.style} = Unclaimed(Columns)
        /\ StaticPass =>
             {c \in DOMAIN Drawn : Drawn[c] = u.style} = Unclaimed(Visible)

\* C2 witness: text "AB" with Single(0) -> white/black and Untouched ->
\* black/white resolves to column 0 = white/black, column 1 = black/white.
C2_Witness ==
    /\ BaselineFresh /\ path = "static" /\ area.width > 1
    /\ text = <<"A", "B">>
    /\ RuleSet = {Rule(Single(0), SymbolStyle(White, Black)),
                  Rule(Untouched, SymbolStyle(Black, White))}
    /\ active_animation.symbol_styles =
         Insert(Insert(EmptyMap, 0, SymbolStyle(White, Black)), 1, SymbolStyle(Black, White))
    /\ Drawn = active_animation.symbol_styles

\* the unclaimed set at the moment rule i of the list is processed
UnclaimedAt(i) ==
    calculate_loop([panic |-> FALSE, unstyled |-> Columns, styles |-> EmptyMap],
                   SubSeq(symbol_styles, 1, i - 1), text_char_count).unstyled

\* the columns of the text rule r claims
ClaimedBy(r) == {c \in Columns : Selects(r.target, c)}

\* C3 as stated: the list is ordered Single, Range, Every, AllExceptEvery,
\* Untouched, so the Untouched rule is processed last, when the unclaimed set
\* excludes every column the other rules claim.
C3_UntouchedProcessedLast ==
    /\ \A i, j \in DOMAIN symbol_styles :
         i < j => ClassRank(symbol_styles[i].target) >= ClassRank(symbol_styles[j].target)
    /\ \A i \in DOMAIN symbol_styles :
         symbol_styles[i].target.kind = "Untouched" =>
            /\ i = Len(symbol_styles)
            /\ \A r \in Claiming : UnclaimedAt(i) \cap ClaimedBy(r) = {}

\* C3 amended: the list is ordered Untouched, AllExceptEvery, Every, Range,
\* Single, so the Untouched rule is processed first, when the unclaimed set
\* still holds every column; the other rules overwrite it afterwards.
C3_UntouchedProcessedFirst ==
    /\ \A i, j \in DOMAIN symbol_styles :
         i < j => ClassRank(symbol_styles[i].target) <= ClassRank(symbol_styles[j].target)
    /\ \A i \in DOMAIN symbol_styles :
         symbol_styles[i].target.kind = "Untouched" =>
            /\ i = 1
            /\ UnclaimedAt(i) = Columns

\* C3 witness: a rule set given with its Untouched rule after a claiming rule
\* that selects a column of the text has been sorted and resolved.
C3_Witness ==
    /\ BaselineFresh
    /\ \E i, j \in DOMAIN style_symbol_styles :
         /\ i < j
         /\ style_symbol_styles[j].target.kind = "Untouched"
         /\ ClaimedBy(style_symbol_styles[i]) # {}

\* a rule whose parameters select nothing by the design
Degenerate(t) ==
    \/ t.kind \in {"Every", "AllExceptEvery"} /\ t.a = 0
    \/ t.kind = "Range" /\ t.a >= t.b

\* C4: a rule set with Every(0), AllExceptEvery(0) or an inverted Range is
\* resolved without a failure, and such a rule gives no column its style.
C4_DegenerateNeverFails ==
    /\ ~panicked
    /\ \A r \in RuleSet : Degenerate(r.target) =>
         /\ BaselineFresh =>
              \A c \in DOMAIN active_animation.symbol_styles :
                  active_animation.symbol_styles[c] # r.style
         /\ StaticPass => \A c \in DOMAIN Drawn : Drawn[c] # r.style

\* C5: enable_animation with a key that has no definition changes nothing of
\* the widget: the active animation, if any, keeps its step, time and pause.
C5_UnknownKeyChangesNothing ==
    [][(last_op'.op = "enable_animation" /\ last_op'.key \notin DOMAIN animation_styles)
         => UNCHANGED widget]_vars

\* C5 witness: an unknown key was enabled over an animation paused past its
\* first step.
C5_Witness ==
    /\ last_op.op = "enable_animation" /\ last_op.key \notin DOMAIN animation_styles
    /\ pre = "Paused"
    /\ active_animation # None /\ active_animation.current_step > 0

\* C6: a render pass in which the animation ends clears it and draws exactly
\* what a render without animation draws; a render with no animation takes
\* the static path.
C6_CompletionHandoff ==
    /\ (last_op.op = "render" /\ path = "fallback") =>
          active_animation = None /\ writes = StaticWrites
    /\ (last_op.op = "render" /\ pre = "Idle") =>
          active_animation = None /\ path = "static"

\* C6 witness: an animation ended in a render pass that drew static styles.
C6_Witness == last_op.op = "render" /\ path = "fallback" /\ writes # EmptyMap

\* the cells the frame of the active animation sets in the area of the pass
FrameWrites ==
    LET frame == Frame(active_animation)
    IN  [cell \in {<<area.x + c, area.y>> : c \in DOMAIN frame \cap Visible} |->
            [ch |-> text[cell[1] - area.x + 1],
             bg |-> frame[cell[1] - area.x].background_color,
             fg |-> frame[cell[1] - area.x].foreground_color]]

\* C7: a render pass in which the animation returns a frame draws the
\* frame's styles on its visible columns and nothing else, static styles
\* included, and the animation stays active.
C7_FrameOwnsThePass ==
    (last_op.op = "render" /\ path = "animation") =>
        active_animation # None /\ writes = FrameWrites

\* C7 witness: a frame was drawn over columns the static rules style
\* differently.
C7_Witness ==
    /\ last_op.op = "render" /\ path = "animation"
    /\ writes # EmptyMap /\ StaticWrites # EmptyMap /\ writes # StaticWrites

\* C8: enable_animation, disable_animation, render in a row leave no active
\* animation and draw what a render without animation draws.
C8_EnableDisableRoundTrip ==
    round_trip = 3 =>
        active_animation = None /\ path = "static" /\ writes = StaticWrites

\* C8 witness: the three calls were made over an active animation and the
\* render drew something.
C8_Witness == round_trip = 3 /\ writes # EmptyMap /\ ~panicked

\* C9: every cell a render pass writes is in the area it was given, in a row
\* of the area and in a column of the visible width.
C9_WritesInsideArea ==
    \A cell \in DOMAIN writes :
        /\ area.x <= cell[1] /\ cell[1] < area.x + Min(area.width, text_char_count)
        /\ area.y <= cell[2] /\ cell[2] < area.y + area.height

NoAnimationOps ==
    {"pause_animation", "unpause_animation", "advance_animation", "disable_animation"}

\* C10: without an active animation pause, unpause, advance and disable change
\* nothing of the widget; pause of a paused animation and unpause of a running
\* one change nothing either.
C10_LifecycleNoOps ==
    [][/\ (last_op'.op \in NoAnimationOps /\ active_animation = None) => UNCHANGED widget
       /\ (last_op'.op = "pause_animation" /\ active_animation # None
             /\ active_animation.paused) => UNCHANGED widget
       /\ (last_op'.op = "unpause_animation" /\ active_animation # None
             /\ ~active_animation.paused) => UNCHANGED widget]_vars

\* C10 witness: pause was called on an animation paused past its first step.
C10_Witness ==
    /\ last_op.op = "pause_animation" /\ pre = "Paused"
    /\ active_animation # None /\ active_animation.current_step > 0

\* C11: enable_animation with a known key, in any state of the widget, leaves
\* one active animation and nothing of the one before: running, at step 0
\* with no time elapsed, built from the definition under the key, its
\* baseline the static resolution of the rule list over the whole text.
C11_EnableStartsAfresh ==
    (last_op.op = "enable_animation" /\ last_op.key \in DOMAIN animation_styles
       /\ ~panicked) =>
        /\ active_animation # None
        /\ active_animation.style = animation_styles[last_op.key]
        /\ active_animation.current_step = 0
        /\ active_animation.elapsed = 0
        /\ ~active_animation.paused
        /\ ~active_animation.ended
        /\ active_animation.symbol_styles =
             calculate_symbol_styles(symbol_styles, text_char_count).styles
        /\ \A c \in Columns : ResolvedBySpecificity(active_animation.symbol_styles, c)

\* C11 witness: a known key was enabled over a paused animation, on a widget
\* whose rules style some column.
C11_Witness ==
    /\ BaselineFresh /\ pre = "Paused"
    /\ \E c \in Columns : c \in DOMAIN active_animation.symbol_styles

\* the target of the one rule of a stride run
StrideTarget == symbol_styles[1].target

\* the columns c of the text with c mod n = 0, n the stride of the rule
Multiples == {c \in Columns : c % StrideTarget.a = 0}

\* C12: for every n >= 1 and every length, in the baseline and in what the
\* static path draws, Every(n) selects exactly the columns c with c mod n = 0
\* and AllExceptEvery(n) exactly the other columns of the text (never column
\* 0); the static path draws those of them that are visible.
C12_StrideSelectors ==
    LET selected == IF StrideTarget.kind = "Every" THEN Multiples
                    ELSE Columns \ Multiples
    IN  /\ BaselineFresh => DOMAIN active_animation.symbol_styles = selected
        /\ StaticPass => DOMAIN Drawn = selected \cap Visible
        /\ (StaticPass /\ StrideTarget.kind = "AllExceptEvery") => 0 \notin DOMAIN Drawn

\* C12 witness: Every(2) on length 5 resolved to the columns 0, 2 and 4.
C12_Witness ==
    /\ BaselineFresh /\ text_char_count = 5 /\ StrideTarget = Every(2)
    /\ DOMAIN active_animation.symbol_styles = {0, 2, 4}

\* The orderings of the rules given at construction that keep the relative
\* order of the rules of each class.
Reorderings ==
    LET n == Len(style_symbol_styles)
        given == style_symbol_styles
    IN  {[i \in 1 .. n |-> given[f[i]]] :
            f \in {f \in [1 .. n -> 1 .. n] :
                     /\ \A i, j \in 1 .. n : i # j => f[i] # f[j]
                     /\ \A i, j \in 1 .. n :
                          (i < j /\ ClassRank(given[f[i]].target) = ClassRank(given[f[j]].target))
                              => f[i] < f[j]}}

\* C13: whichever ordering of the given rules that keeps the relative order
\* within each class the widget is constructed from, the baseline and the
\* writes of the static path are the ones this widget has.
C13_OrderIndependence ==
    \A p \in Reorderings :
        /\ BaselineFresh =>
             calculate_symbol_styles(new_symbol_styles(p), text_char_count).styles
                 = active_animation.symbol_styles
        /\ StaticPass =>
             render(None, new_symbol_styles(p), text, text_char_count, area, 0).writes
                 = writes

\* C13 witness: a baseline computed from rules of two classes that select a
\* common column of the text and were given most specific first, so that
\* another ordering of them exists.
C13_Witness ==
    /\ BaselineFresh
    /\ style_symbol_styles # symbol_styles
    /\ \E p \in Reorderings : p # style_symbol_styles
    /\ \E c \in Columns : \E q, r \in RuleSet :
          /\ Selects(q.target, c) /\ Selects(r.target, c)
          /\ ClassRank(q.target) > ClassRank(r.target) /\ r.target.kind # "Untouched"

\* the visible columns of the last render pass that no rule selects
Unselected == {c \in Visible : \A r \in RuleSet : ~Selects(r.target, c)}

\* C14: in a static render pass every visible column that no rule selects
\* has its glyph written at its physical position (and no background or
\* foreground colour: a cell of writes is a glyph with its two colours, so a
\* column outside DOMAIN writes has no colour written and no glyph either).
C14_UnselectedGlyphWritten ==
    StaticPass =>
        \A c \in Unselected :
            /\ <<area.x + c, area.y>> \in DOMAIN writes
            /\ writes[<<area.x + c, area.y>>].ch = text[c + 1]

\* C15: the baseline handed to a newly enabled animation has keys only in
\* 0..length: a Single(col) with col >= length, and the part of a Range at or
\* beyond length, contribute no entry.
C15_BaselineWithinText ==
    BaselineFresh => DOMAIN active_animation.symbol_styles \subseteq Columns

\* the sum of the durations of the first n steps of a definition
RECURSIVE DurationOf(_, _)
DurationOf(style, n) ==
    IF n = 0 THEN 0 ELSE DurationOf(style, n - 1) + style.steps[n].duration

\* the time an animation has used since it was enabled: the steps it has
\* left behind and the time into its current step
Progress(a) == DurationOf(a.style, a.current_step) + a.elapsed

\* a render pass with an active, unpaused Once/Auto animation that has not ended
OnceAutoTick ==
    /\ last_op'.op = "render"
    /\ active_animation # None
    /\ active_animation.style.repeat_mode = "Once"
    /\ active_animation.style.advance_mode = "Auto"
    /\ ~active_animation.paused /\ ~active_animation.ended

\* C16: a render tick of a Once/Auto animation draws a frame and keeps the
\* animation, its time carried forward, while the cumulative time of the ticks
\* since enable_animation is less than the sum of the step durations, however
\* the time is split across ticks; the first tick that reaches the sum clears
\* the animation and falls back, and a render without animation is static.
C16_OnceAutoTiming ==
    [][/\ OnceAutoTick =>
            LET total == Progress(active_animation) + last_op'.key
                sum == DurationOf(active_animation.style, Len(active_animation.style.steps))
            IN  IF total < sum
                THEN /\ path' = "animation"
                     /\ active_animation' # None
                     /\ Progress(active_animation') = total
                     /\ writes' = FrameWrites'
                ELSE /\ path' = "fallback"
                     /\ active_animation' = None
       /\ (last_op'.op = "render" /\ active_animation = None) => path' = "static"
      ]_vars

\* C16 witness: a tick of length 1 that drew a frame of a Once/Auto animation
\* whose first step is over.
C16_Witness ==
    /\ last_op.op = "render" /\ last_op.key = 1 /\ path = "animation"
    /\ active_animation # None
    /\ active_animation.style.repeat_mode = "Once"
    /\ active_animation.style.advance_mode = "Auto"
    /\ ~active_animation.paused
    /\ active_animation.current_step = 1

\* C17: pause_animation on an active animation pauses it where it is, and
\* every render of a paused animation, whatever time has passed, leaves its
\* step index, its elapsed time and the rest of it unchanged, keeps it active,
\* signals no completion and draws the frame it had.
C17_PausedHolds ==
    [][/\ (last_op'.op = "pause_animation" /\ active_animation # None) =>
            active_animation' = [active_animation EXCEPT !.paused = TRUE]
       /\ (last_op'.op = "render" /\ active_animation # None /\ active_animation.paused) =>
            /\ active_animation' = active_animation
            /\ path' = "animation"
            /\ writes' = FrameWrites'
            /\ Frame(active_animation') = Frame(active_animation)
      ]_vars

\* C17 witness: a paused Once/Auto animation rendered after a time as long as
\* all of its steps.
C17_Witness ==
    /\ last_op.op = "render" /\ last_op.key = MaxDt /\ pre = "Paused"
    /\ path = "animation"
    /\ active_animation # None
    /\ active_animation.paused
    /\ active_animation.style.repeat_mode = "Once"
    /\ active_animation.style.advance_mode = "Auto"
    /\ MaxDt >= DurationOf(active_animation.style, Len(active_animation.style.steps))

\* an active animation of the given advance mode that has not ended
ActiveIn(mode) ==
    /\ active_animation # None
    /\ active_animation.style.advance_mode = mode
    /\ ~active_animation.ended

\* C18: under Manual, a render tick of any length leaves the step index (and
\* the rest of the animation) unchanged, and advance_animation moves exactly
\* one step forward: to the next step, or from the last step to step 0 under
\* Infinite and to completion under Once.  Under Auto, advance_animation
\* leaves the step index and the elapsed time unchanged.
C18_AdvanceModes ==
    [][/\ (last_op'.op = "render" /\ ActiveIn("Manual")) =>
            active_animation' = active_animation
       /\ (last_op'.op = "advance_animation" /\ ActiveIn("Manual")) =>
            LET last == active_animation.current_step + 1 = Len(active_animation.style.steps)
            IN  /\ active_animation' # None
                /\ ~last =>
                     /\ active_animation'.current_step = active_animation.current_step + 1
                     /\ ~active_animation'.ended
                /\ (last /\ active_animation.style.repeat_mode = "Infinite") =>
                     /\ active_animation'.current_step = 0
                     /\ ~active_animation'.ended
                /\ (last /\ active_animation.style.repeat_mode = "Once") =>
                     active_animation'.ended
       /\ (last_op'.op = "advance_animation" /\ ActiveIn("Auto")) =>
            active_animation' = active_animation
      ]_vars

\* C18 witness: advance_animation has moved a Manual animation to its second
\* step.
C18_Witness ==
    /\ last_op.op = "advance_animation"
    /\ ActiveIn("Manual")
    /\ active_animation.current_step = 1

\* C19: with no active animation, render leaves the text, its length, the
\* rule list, the animation definitions and the absence of an animation as
\* they are, so a second static pass over the same area writes what the first
\* wrote; enable_animation, which runs calculate_symbol_styles, leaves the
\* rules and the text as they are too, so a second resolution gives the same
\* baseline.
C19_StaticIdempotent ==
    [][/\ (last_op'.op = "render" /\ active_animation = None) =>
            /\ UNCHANGED <<text, text_char_count, symbol_styles, animation_styles,
                           active_animation>>
            /\ path' = "static"
            /\ (StaticPass /\ area' = area /\ ~panicked') => writes' = writes
       /\ (last_op'.op = "enable_animation") =>
            /\ UNCHANGED <<text, text_char_count, symbol_styles, animation_styles>>
            /\ (BaselineFresh /\ BaselineFresh') =>
                 active_animation'.symbol_styles = active_animation.symbol_styles
      ]_vars

\* C19 witness: a static pass on a widget without animation has drawn the
\* styles of its rules.
C19_Witness ==
    /\ StaticPass /\ pre = "Idle"
    /\ symbol_styles # <<>>
    /\ writes # EmptyMap
    /\ writes = StaticWrites

\* the mapping calculate_symbol_styles gives for the rules and the text of
\* the widget
Resolved == calculate_symbol_styles(symbol_styles, text_char_count).styles

\* C20: for every rule set that resolves, every length and every visible
\* width, the static path of render writes on a visible column the glyph in
\* the colours calculate_symbol_styles maps the column to, and writes nothing
\* on a visible column exactly when calculate_symbol_styles has no entry for
\* it; so the colours of a visible column are the same at every width.
C20_ResolversAgree ==
    StaticPass =>
        \A c \in Visible :
            /\ c \in DOMAIN Drawn <=> c \in DOMAIN Resolved
            /\ c \in DOMAIN Drawn =>
                 /\ Drawn[c] = Resolved[c]
                 /\ writes[<<area.x + c, area.y>>].ch = text[c + 1]

\* C20 witness: a static pass on an area narrower than the text and away from
\* the origin, under rules of several classes of which one is a stride rule,
\* with a visible column drawn and another left alone.
C20_Witness ==
    /\ StaticPass
    /\ area.x > 0 /\ area.width < text_char_count
    /\ \E r \in RuleSet : r.target.kind = "AllExceptEvery"
    /\ \E q, r \in RuleSet : ClassRank(q.target) # ClassRank(r.target)
    /\ \E c, d \in Visible : c \in DOMAIN Drawn /\ d \notin DOMAIN Drawn

====
